---- MODULE Spec2Model ----
(***************************************************************************)
(* Model of the Eurostat transport/climate pipeline:                       *)
(*   script/clean_data.py   - three normalizers and integrate_datasets     *)
(*   script/plot_scatter.py - per-country aggregation and the OLS trend    *)
(*   script/main.py         - the orchestration of the three scripts       *)
(*   script/download_data.py - the download loop                           *)
(*                                                                         *)
(* A DataFrame is a record [err, columns, rows]: a set of column names and *)
(* a sequence of rows, each row a function from the columns to cells.  A   *)
(* call that raises is the record Raise(e).  A text cell (a CSV field) is  *)
(* a sequence of characters; a float is the record [k, num, den]: a        *)
(* reduced fraction (k = "fin"), NaN (k = "nan") or +inf (k = "inf").      *)
(* Floats are exact rationals; IEEE rounding is modelled only where the    *)
(* code tests a rounded value against zero (the ss_tot guard of R2).       *)
(***************************************************************************)
EXTENDS Integers, Sequences, FiniteSets, TLC

VARIABLES plan, raw, cleaned, recleaned, integrated, summary, trend,
          args, fs, at_root, cwd_fs, encoding, errors, cmd, pc, started, fetched,
          exit_status, output

\* the tables of clean_data.py and plot_scatter.py
dataVars == <<plan, raw, cleaned, recleaned, integrated, summary, trend>>

\* the state of a run of main.py: its flags, the files that exist under
\* the repository root (fs) and under the working directory (cwd_fs, the
\* same files when at_root), the encoding and the error handler of its
\* stdout, the characters of the command lines it builds (the paths of the interpreter and of the
\* script directory), its position, the scripts it started with their
\* return codes, the files download_dataset was called for, its exit status
\* (<<>> while it runs) and the lines it printed
mainVars ==
    <<args, fs, at_root, cwd_fs, encoding, errors, cmd, pc, started, fetched,
      exit_status, output>>

vars == <<plan, raw, cleaned, recleaned, integrated, summary, trend,
          args, fs, at_root, cwd_fs, encoding, errors, cmd, pc, started, fetched,
          exit_status, output>>

(***************************************************************************)
(* Bounds of the model.                                                    *)
(***************************************************************************)
\* rows of the raw table handed to one normalizer (SpecClean)
MaxRawRows == 2
\* rows of the three raw tables together (Spec)
MaxTotalRows == 5
\* rows of the integrated CSV read by the plot script (SpecAggregate)
MaxIntegratedRows == 3
\* units in the last place a rounded mean or prediction is off by
MaxUlps == 2

(***************************************************************************)
(* Floats.                                                                 *)
(***************************************************************************)
RECURSIVE GCD(_, _)
GCD(a, b) == IF b = 0 THEN a ELSE GCD(b, a % b)

Abs(a) == IF a < 0 THEN -a ELSE a

NaN == [k |-> "nan", num |-> 0, den |-> 1]
Inf == [k |-> "inf", num |-> 1, den |-> 1]
NegInf == [k |-> "ninf", num |-> -1, den |-> 1]

\* the float n/d, d # 0, as a reduced fraction with a positive denominator
Fin(n, d) ==
    LET g == GCD(Abs(n), Abs(d))
        s == IF d < 0 THEN -1 ELSE 1
    IN  [k |-> "fin", num |-> (s * n) \div g, den |-> (s * d) \div g]

IsFinite(a) == a.k = "fin"
IsNull(a) == a.k = "nan"

\* -1, 0 or 1; the sign of an infinity is in its num
Sign(a) == IF a.num < 0 THEN -1 ELSE IF a.num > 0 THEN 1 ELSE 0

Signed(s) == IF s < 0 THEN NegInf ELSE Inf

FNeg(a) ==
    CASE a.k = "nan" -> NaN
      [] a.k = "inf" -> NegInf
      [] a.k = "ninf" -> Inf
      [] OTHER -> Fin(-a.num, a.den)

\* float arithmetic as numpy does it: inf - inf, 0 * inf, 0 / 0 and
\* inf / inf are NaN, x / 0 is an infinity
FAdd(a, b) ==
    IF a.k = "nan" \/ b.k = "nan" THEN NaN
    ELSE IF a.k # "fin" /\ b.k # "fin" THEN (IF a.k = b.k THEN a ELSE NaN)
    ELSE IF a.k # "fin" THEN a
    ELSE IF b.k # "fin" THEN b
    ELSE Fin(a.num * b.den + b.num * a.den, a.den * b.den)

FSub(a, b) == FAdd(a, FNeg(b))

FMul(a, b) ==
    IF a.k = "nan" \/ b.k = "nan" THEN NaN
    ELSE IF a.k = "fin" /\ b.k = "fin" THEN Fin(a.num * b.num, a.den * b.den)
    ELSE IF Sign(a) = 0 \/ Sign(b) = 0 THEN NaN
    ELSE Signed(Sign(a) * Sign(b))

FDiv(a, b) ==
    IF a.k = "nan" \/ b.k = "nan" THEN NaN
    ELSE IF b.k # "fin" THEN (IF a.k = "fin" THEN Fin(0, 1) ELSE NaN)
    ELSE IF b.num = 0 THEN (IF Sign(a) = 0 THEN NaN ELSE Signed(Sign(a)))
    ELSE IF a.k # "fin" THEN Signed(Sign(a) * Sign(b))
    ELSE Fin(a.num * b.den, a.den * b.num)

\* a < b: false when either is NaN
FLess(a, b) ==
    IF a.k = "nan" \/ b.k = "nan" THEN FALSE
    ELSE IF a.k = "inf" \/ b.k = "ninf" THEN FALSE
    ELSE IF a.k = "ninf" \/ b.k = "inf" THEN TRUE
    ELSE a.num * b.den < b.num * a.den

(***************************************************************************)
(* pd.to_numeric(..., errors="coerce") on one text cell.  The parser       *)
(* first reads a number: it skips the white space before it, reads an      *)
(* optional sign and a decimal (digits with at most one point and at least *)
(* one digit) with an optional exponent (e or E, an optional sign,         *)
(* digits), and skips the white space after it.  A text that is not a      *)
(* number is then compared as a whole, white space included, with "inf"    *)
(* and "infinity" in any case, with an optional sign.  Any other text of   *)
(* the model's alphabet, the empty cell included, is NaN.                  *)
(***************************************************************************)
Digits == <<"0", "1", "2", "3", "4", "5", "6", "7", "8", "9">>

IsDigit(c) == \E i \in 1..10 : Digits[i] = c

DigitVal(c) == (CHOOSE i \in 1..10 : Digits[i] = c) - 1

RECURSIVE Pow10(_)
Pow10(n) == IF n = 0 THEN 1 ELSE 10 * Pow10(n - 1)

\* the value of a sequence of digits read as a decimal integer
RECURSIVE DigitsVal(_)
DigitsVal(s) ==
    IF s = <<>> THEN 0
    ELSE 10 * DigitsVal(SubSeq(s, 1, Len(s) - 1)) + DigitVal(s[Len(s)])

AllDigits(s) == s # <<>> /\ \A i \in 1..Len(s) : IsDigit(s[i])

IsSign(c) == c = "+" \/ c = "-"

\* the text without its leading sign
Unsigned(text) ==
    IF text # <<>> /\ IsSign(text[1]) THEN SubSeq(text, 2, Len(text)) ELSE text

\* an unsigned decimal without exponent: its value, or NaN
Decimal(text) ==
    LET n == Len(text)
        points == {i \in 1..n : text[i] = "."}
        digits == {i \in 1..n : IsDigit(text[i])}
    IN  IF digits = {} \/ Cardinality(points) > 1 \/ digits \cup points # 1..n THEN NaN
        ELSE IF points = {} THEN Fin(DigitsVal(text), 1)
        ELSE LET p == CHOOSE i \in points : TRUE
                 whole == SubSeq(text, 1, p - 1)
                 frac == SubSeq(text, p + 1, n)
             IN  Fin(DigitsVal(whole \o frac), Pow10(Len(frac)))

\* an unsigned decimal with an optional exponent: its value, or NaN
Scientific(text) ==
    LET n == Len(text)
        marks == {i \in 1..n : text[i] = "e" \/ text[i] = "E"}
    IN  IF marks = {} THEN Decimal(text)
        ELSE IF Cardinality(marks) > 1 THEN NaN
        ELSE LET p == CHOOSE i \in marks : TRUE
                 mantissa == Decimal(SubSeq(text, 1, p - 1))
                 exponent == SubSeq(text, p + 1, n)
                 power == Unsigned(exponent)
             IN  IF mantissa = NaN \/ ~AllDigits(power) THEN NaN
                 ELSE IF exponent[1] = "-"
                 THEN FDiv(mantissa, Fin(Pow10(DigitsVal(power)), 1))
                 ELSE FMul(mantissa, Fin(Pow10(DigitsVal(power)), 1))

\* the lower case of the letters of "infinity"
Lower(c) ==
    CASE c = "I" -> "i"
      [] c = "N" -> "n"
      [] c = "F" -> "f"
      [] c = "T" -> "t"
      [] c = "Y" -> "y"
      [] OTHER -> c

IsInfinity(text) ==
    LET low == [i \in 1..Len(text) |-> Lower(text[i])]
    IN  low = <<"i", "n", "f">> \/ low = <<"i", "n", "f", "i", "n", "i", "t", "y">>

\* the vertical tab, which has no escape in a TLA+ string
VerticalTab == "\\v"

\* the white space of the parser: blank, \t, \n, \v, \f and \r
IsSpace(c) == c \in {" ", "\t", "\n", VerticalTab, "\f", "\r"}

\* the text without the white space before and after it
RECURSIVE Strip(_)
Strip(text) ==
    IF text = <<>> THEN text
    ELSE IF IsSpace(text[1]) THEN Strip(Tail(text))
    ELSE IF IsSpace(text[Len(text)]) THEN Strip(SubSeq(text, 1, Len(text) - 1))
    ELSE text

\* the number read from the text between its white space, or NaN
Number(text) ==
    LET stripped == Strip(text)
        value == Scientific(Unsigned(stripped))
    IN  IF stripped # <<>> /\ stripped[1] = "-" THEN FNeg(value) ELSE value

to_numeric(text) ==
    LET number == Number(text)
    IN  IF ~IsNull(number) THEN number
        ELSE IF ~IsInfinity(Unsigned(text)) THEN NaN
        ELSE IF text[1] = "-" THEN NegInf
        ELSE Inf

\* Series.astype(int) on one finite float: truncation toward zero
astype_int(a) == IF a.num < 0 THEN -((-a.num) \div a.den) ELSE a.num \div a.den

(***************************************************************************)
(* DataFrames.                                                             *)
(***************************************************************************)
Frame(cols, rows) == [err |-> "", columns |-> cols, rows |-> rows]

Raise(e) == [err |-> e, columns |-> {}, rows |-> <<>>]

\* a stage that has not run
Pending == Raise("pending")

\* pd.DataFrame(): no columns, no rows
EmptyFrame == Frame({}, <<>>)

Raised(df) == df.err # "" /\ df.err # "pending"
Returned(df) == df.err = ""

\* df[df[col] == value]
FilterEq(df, col, value) ==
    Frame(df.columns, SelectSeq(df.rows, LAMBDA r : r[col] = value))

\* df[present]
Project(df, present) ==
    Frame(present, [i \in 1..Len(df.rows) |-> [c \in present |-> df.rows[i][c]]])

\* a rename map without its geo entry
RenameColNoGeo(c, indicator) ==
    CASE c = "TIME_PERIOD" -> "year"
      [] c = "OBS_VALUE" -> indicator
      [] OTHER -> c

\* rename_map, the same in every normalizer but for the indicator name:
\* geo -> country, TIME_PERIOD -> year, OBS_VALUE -> indicator
RenameCol(c, indicator) ==
    CASE c = "geo" -> "country"
      [] c = "TIME_PERIOD" -> "year"
      [] c = "OBS_VALUE" -> indicator
      [] OTHER -> c

\* df.rename(columns=rename_map)
Rename(df, indicator) ==
    LET cols == {RenameCol(c, indicator) : c \in df.columns}
        From(n) == CHOOSE c \in df.columns : RenameCol(c, indicator) = n
    IN  Frame(cols, [i \in 1..Len(df.rows) |-> [n \in cols |-> df.rows[i][From(n)]]])

\* df[col] = pd.to_numeric(df[col], errors="coerce")
ParseColumn(df, col) ==
    Frame(df.columns,
          [i \in 1..Len(df.rows) |->
              [c \in df.columns |->
                  IF c = col THEN to_numeric(df.rows[i][c]) ELSE df.rows[i][c]]])

\* df[col] = df[col].astype(int) on a column of finite floats
TruncateColumn(df, col) ==
    Frame(df.columns,
          [i \in 1..Len(df.rows) |->
              [c \in df.columns |->
                  IF c = col THEN astype_int(df.rows[i][c]) ELSE df.rows[i][c]]])

\* the year block shared by the normalizers:
\*   df["year"] = pd.to_numeric(df["year"], errors="coerce")
\*   df = df.dropna(subset=["year"]).copy()
\*   df["year"] = df["year"].astype(int)
\* astype(int) raises IntCastingNaNError on a non-finite value (inf survives
\* dropna) and truncates a fractional one.
ConvertYear(df) ==
    IF "year" \notin df.columns THEN df
    ELSE LET parsed == ParseColumn(df, "year")
             kept == Frame(parsed.columns,
                           SelectSeq(parsed.rows, LAMBDA r : ~IsNull(r["year"])))
         IN  IF \E i \in 1..Len(kept.rows) : ~IsFinite(kept.rows[i]["year"])
             THEN Raise("IntCastingNaNError")
             ELSE TruncateColumn(kept, "year")

\* the indicator block: df[ind] = pd.to_numeric(df[ind], errors="coerce");
\* a value that fails to parse stays in the frame as NaN
ConvertValue(df, indicator) ==
    IF Raised(df) \/ indicator \notin df.columns THEN df
    ELSE ParseColumn(df, indicator)

(***************************************************************************)
(* clean_buses_trains                                                      *)
(***************************************************************************)
BTDesired == {"geo", "TIME_PERIOD", "OBS_VALUE", "OBS_FLAG", "vehicle"}

BTFilter(df) ==
    IF "vehicle" \in df.columns THEN FilterEq(df, "vehicle", "TRN_BUS_TOT_AVD") ELSE df

clean_buses_trains(df) ==
    LET kept == BTFilter(df)
        projected == Project(kept, BTDesired \cap kept.columns)
        renamed == Rename(projected, "share_buses_trains")
    IN  ConvertValue(ConvertYear(renamed), "share_buses_trains")

(***************************************************************************)
(* clean_greenhouse_gas                                                    *)
(***************************************************************************)
GHGDesired == {"geo", "TIME_PERIOD", "OBS_VALUE", "OBS_FLAG", "unit"}

GHGFilter(df) ==
    LET byUnit == IF "unit" \in df.columns THEN FilterEq(df, "unit", "T_HAB") ELSE df
    IN  IF "src_crf" \in byUnit.columns THEN FilterEq(byUnit, "src_crf", "TOTXMEMO")
        ELSE byUnit

clean_greenhouse_gas(df) ==
    LET kept == GHGFilter(df)
        projected == Project(kept, GHGDesired \cap kept.columns)
        renamed == Rename(projected, "ghg_per_capita")
    IN  ConvertValue(ConvertYear(renamed), "ghg_per_capita")

(***************************************************************************)
(* clean_road_emissions                                                    *)
(***************************************************************************)
RoadDesired ==
    {"geo", "TIME_PERIOD", "OBS_VALUE", "OBS_FLAG", "unit", "indic_env", "airpol"}

RoadExpected ==
    {"country", "year", "road_co2_per_capita_g", "OBS_FLAG", "unit", "indic_env", "airpol"}

\* the guard of the early return: a discriminating column is missing
RoadColumnsMissing(df) == "indic_env" \notin df.columns \/ "airpol" \notin df.columns

\* a filter that forgets the airpol predicate
RoadFilterNoAirpol(df) ==
    LET byIndic == FilterEq(df, "indic_env", "AEMIS_RES")
    IN  IF "unit" \in byIndic.columns THEN FilterEq(byIndic, "unit", "KG_HAB") ELSE byIndic

RoadFilter(df) ==
    LET byIndic == FilterEq(FilterEq(df, "indic_env", "AEMIS_RES"), "airpol", "CO2")
    IN  IF "unit" \in byIndic.columns THEN FilterEq(byIndic, "unit", "KG_HAB") ELSE byIndic

\* a normalizer without the early return: filtering on a missing column raises
clean_road_emissions_unguarded(df) ==
    IF RoadColumnsMissing(df) THEN Raise("KeyError")
    ELSE LET kept == RoadFilter(df)
             projected == Project(kept, RoadDesired \cap kept.columns)
             renamed == Rename(projected, "road_co2_per_capita_g")
         IN  ConvertValue(ConvertYear(renamed), "road_co2_per_capita_g")

clean_road_emissions(df) ==
    IF RoadColumnsMissing(df) THEN Frame(RoadExpected, <<>>)
    ELSE LET kept == RoadFilter(df)
             projected == Project(kept, RoadDesired \cap kept.columns)
             renamed == Rename(projected, "road_co2_per_capita_g")
         IN  ConvertValue(ConvertYear(renamed), "road_co2_per_capita_g")

Kinds == {"buses_trains", "greenhouse_gas", "road_emissions"}

Clean(kind, df) ==
    CASE kind = "buses_trains" -> clean_buses_trains(df)
      [] kind = "greenhouse_gas" -> clean_greenhouse_gas(df)
      [] kind = "road_emissions" -> clean_road_emissions(df)

Indicator(kind) ==
    CASE kind = "buses_trains" -> "share_buses_trains"
      [] kind = "greenhouse_gas" -> "ghg_per_capita"
      [] kind = "road_emissions" -> "road_co2_per_capita_g"

(***************************************************************************)
(* integrate_datasets                                                      *)
(***************************************************************************)
JoinKeys == {"country", "year"}

\* a join on country alone
SameCountry(a, b) == a["country"] = b["country"]

SameKey(a, b) == a["country"] = b["country"] /\ a["year"] = b["year"]

\* a join that keeps one match per left row
FirstMatch(a, rows) ==
    LET hits == SelectSeq(rows, LAMBDA b : SameKey(a, b))
    IN  IF hits = <<>> THEN <<>> ELSE <<Head(hits)>>

\* the rows of the right frame that carry the key of left row a, in order
MatchingRows(a, rows) == SelectSeq(rows, LAMBDA b : SameKey(a, b))

\* the name a column of one side carries in the merged frame: its suffix is
\* added when the other side has a column of the same name that is no key
Suffixed(c, others, suffix) == IF c \in others \ JoinKeys THEN c \o suffix ELSE c

RECURSIVE Flatten(_)
Flatten(ss) == IF ss = <<>> THEN <<>> ELSE Head(ss) \o Flatten(Tail(ss))

\* the rows gathered by key, the keys in the order in which they first
\* occur and the rows of one key in their order
GroupByKey(rows) ==
    Flatten([j \in 1..Len(rows) |->
                IF \E i \in 1..(j - 1) : SameKey(rows[i], rows[j]) THEN <<>>
                ELSE SelectSeq(rows, LAMBDA r : SameKey(rows[j], r))])

\* the row orders of an inner merge: pandas 2.2 and later keep the order of
\* the left rows, earlier versions gather the left rows by key
Joins == {"left", "grouped"}

\* left.merge(right, on=["country", "year"], how="inner", suffixes=(sl, sr)):
\* KeyError when a side lacks a key column; otherwise every pair of rows
\* with equal keys, in the order join gives the left rows
merge(left, right, sl, sr, join) ==
    IF ~(JoinKeys \subseteq left.columns) \/ ~(JoinKeys \subseteq right.columns)
    THEN Raise("KeyError")
    ELSE LET lcols == {Suffixed(c, right.columns, sl) : c \in left.columns}
             rcols == {Suffixed(c, left.columns, sr) : c \in right.columns}
             Pair(a, b) ==
                 [n \in lcols \cup rcols |->
                     IF \E c \in left.columns : Suffixed(c, right.columns, sl) = n
                     THEN a[CHOOSE c \in left.columns : Suffixed(c, right.columns, sl) = n]
                     ELSE b[CHOOSE c \in right.columns : Suffixed(c, left.columns, sr) = n]]
             Matches(a) ==
                 LET hits == MatchingRows(a, right.rows)
                 IN  [j \in 1..Len(hits) |-> Pair(a, hits[j])]
             lrows == IF join = "grouped" THEN GroupByKey(left.rows) ELSE left.rows
         IN  Frame(lcols \cup rcols,
                   Flatten([i \in 1..Len(lrows) |-> Matches(lrows[i])]))

Required == {"share_buses_trains", "ghg_per_capita", "road_co2_per_capita_g"}

\* merged.dropna(subset=present_required)
DropNull(df, subset) ==
    Frame(df.columns, SelectSeq(df.rows, LAMBDA r : \A c \in subset : ~IsNull(r[c])))

integrate_datasets(tables, join) ==
    LET bt == tables["buses_trains"]
        ghg == tables["greenhouse_gas"]
        road == tables["road_emissions"]
        first == merge(bt, ghg, "_bt", "_ghg", join)
        merged == IF Raised(first) THEN first ELSE merge(first, road, "_x", "_y", join)
    IN  IF Raised(merged) THEN merged
        ELSE DropNull(merged, Required \cap merged.columns)

(***************************************************************************)
(* plot_scatter.main: the per-country aggregation (lines 41-57).  The      *)
(* hover formatting of lines 59-62 and the figure are outside the model.   *)
(***************************************************************************)
\* the country codes of the model in the order groupby sorts its keys
Countries == <<"DE", "FR", "IT">>

NumericColumns == {"share_buses_trains", "road_co2_per_capita_g", "ghg_per_capita", "year"}

\* for col in [...]: if col in df.columns: df[col] = pd.to_numeric(df[col], errors="coerce")
EnsureNumeric(df) ==
    Frame(df.columns,
          [i \in 1..Len(df.rows) |->
              [c \in df.columns |->
                  IF c \in NumericColumns THEN to_numeric(df.rows[i][c]) ELSE df.rows[i][c]]])

RECURSIVE FSum(_)
FSum(vs) == IF vs = <<>> THEN Fin(0, 1) ELSE FAdd(Head(vs), FSum(Tail(vs)))

NotNull(vs) == SelectSeq(vs, LAMBDA v : ~IsNull(v))

\* an infinite value is followed by another value.  The mean of a group is
\* a compensated sum divided by a count; after an infinite value the
\* compensation is inf - inf = NaN, which pandas 2.0 and later reset to 0 and
\* pandas 1.2 to 1.5 subtract from the next value
Spoiled(xs) == \E i \in 1..(Len(xs) - 1) : ~IsFinite(xs[i])

\* the "mean" of groupby(...).agg: NaN is skipped; the mean of no value is
\* NaN; kahan tells whether a NaN compensation is reset or kept
Mean(vs, kahan) ==
    LET xs == NotNull(vs)
    IN  IF xs = <<>> THEN NaN
        ELSE IF kahan = "keeps" /\ Spoiled(xs) THEN NaN
        ELSE FDiv(FSum(xs), Fin(Len(xs), 1))

\* Series.min() and Series.max() over the values that are not NaN
Min(vs) ==
    LET xs == NotNull(vs)
    IN  IF xs = <<>> THEN NaN
        ELSE CHOOSE v \in {xs[i] : i \in 1..Len(xs)} :
                \A j \in 1..Len(xs) : ~FLess(xs[j], v)

Max(vs) ==
    LET xs == NotNull(vs)
    IN  IF xs = <<>> THEN NaN
        ELSE CHOOSE v \in {xs[i] : i \in 1..Len(xs)} :
                \A j \in 1..Len(xs) : ~FLess(v, xs[j])

\* a "count" in place of "nunique": the values that are not NaN
NCount(vs) == Len(NotNull(vs))

\* Series.nunique(): the distinct values that are not NaN
NUnique(vs) == LET xs == NotNull(vs) IN Cardinality({xs[i] : i \in 1..Len(xs)})

Column(rows, c) == [i \in 1..Len(rows) |-> rows[i][c]]

\* one row of df.groupby("country").agg(...) with the kg column of line 57
SummaryRow(country, rows, kahan) ==
    LET road == Mean(Column(rows, "road_co2_per_capita_g"), kahan)
    IN  [country |-> country,
         share_buses_trains |-> Mean(Column(rows, "share_buses_trains"), kahan),
         road_co2_per_capita_g |-> road,
         ghg_per_capita |-> Mean(Column(rows, "ghg_per_capita"), kahan),
         year_min |-> Min(Column(rows, "year")),
         year_max |-> Max(Column(rows, "year")),
         years_count |-> NUnique(Column(rows, "year")),
         road_co2_per_capita_kg |-> FDiv(road, Fin(1000, 1))]

SummaryColumns ==
    {"country", "share_buses_trains", "road_co2_per_capita_g", "ghg_per_capita",
     "year_min", "year_max", "years_count", "road_co2_per_capita_kg"}

\* KeyError when the grouping column or an aggregated column is missing;
\* otherwise one row per country that occurs, in the order of the keys
aggregate(csv, kahan) ==
    IF ~(({"country"} \cup NumericColumns) \subseteq csv.columns) THEN Raise("KeyError")
    ELSE LET df == EnsureNumeric(csv)
             Group(c) == SelectSeq(df.rows, LAMBDA r : r["country"] = c)
             present == SelectSeq(Countries, LAMBDA c : Group(c) # <<>>)
         IN  Frame(SummaryColumns,
                   [i \in 1..Len(present) |->
                       SummaryRow(present[i], Group(present[i]), kahan)])

\* the builds of pandas that the CSV tells apart: the two differ when an
\* indicator of one country has an infinite value before another value
Kahans(csv) ==
    IF ~(({"country"} \cup NumericColumns) \subseteq csv.columns) THEN {"resets"}
    ELSE LET df == EnsureNumeric(csv)
             Group(c) == SelectSeq(df.rows, LAMBDA r : r["country"] = c)
         IN  IF \E i \in 1..Len(Countries) :
                   \E c \in {"share_buses_trains", "road_co2_per_capita_g", "ghg_per_capita"} :
                      Spoiled(NotNull(Column(Group(Countries[i]), c)))
             THEN {"resets", "keeps"}
             ELSE {"resets"}

(***************************************************************************)
(* plot_scatter.main: the linear trend (lines 176-217).                    *)
(***************************************************************************)
\* mask = np.isfinite(x) & np.isfinite(y): the (x, y) pairs kept
ValidPairs(grp) ==
    LET kept == SelectSeq(grp.rows,
                    LAMBDA r : IsFinite(r["share_buses_trains"])
                               /\ IsFinite(r["road_co2_per_capita_kg"]))
    IN  [i \in 1..Len(kept) |->
            <<kept[i]["share_buses_trains"], kept[i]["road_co2_per_capita_kg"]>>]

\* the trend block has not run
NotFitted == [err |-> "pending", present |-> FALSE, slope |-> NaN, intercept |-> NaN, r2 |-> NaN]

NoTrend == [err |-> "", present |-> FALSE, slope |-> NaN, intercept |-> NaN, r2 |-> NaN]

Sq(a) == FMul(a, a)

\* np.polyfit(xm, ym, 1) on n >= 2 points.  polyfit divides each column of
\* the Vandermonde matrix by its norm before lstsq: with every x zero the
\* x column becomes 0/0 = NaN, and lstsq then either raises LinAlgError
\* (the SVD does not converge) or returns NaN, as the LAPACK build decides.
\* With every x the same c # 0 the matrix has rank 1 and lstsq returns the
\* minimum-norm solution.
polyfit(ps, lapack) ==
    LET n == Fin(Len(ps), 1)
        xs == [i \in 1..Len(ps) |-> ps[i][1]]
        ys == [i \in 1..Len(ps) |-> ps[i][2]]
        sx == FSum(xs)
        sy == FSum(ys)
        sxx == FSum([i \in 1..Len(ps) |-> Sq(xs[i])])
        sxy == FSum([i \in 1..Len(ps) |-> FMul(xs[i], ys[i])])
        det == FSub(FMul(n, sxx), Sq(sx))
        ybar == FDiv(sy, n)
    IN  IF sxx.num = 0
        THEN IF lapack = "raises" THEN [err |-> "LinAlgError", slope |-> NaN, intercept |-> NaN]
             ELSE [err |-> "", slope |-> NaN, intercept |-> NaN]
        ELSE IF det.num = 0
        THEN [err |-> "", slope |-> FDiv(ybar, FMul(Fin(2, 1), xs[1])),
              intercept |-> FDiv(ybar, Fin(2, 1))]
        ELSE LET slope == FDiv(FSub(FMul(n, sxy), FMul(sx, sy)), det)
             IN  [err |-> "", slope |-> slope,
                  intercept |-> FSub(ybar, FMul(slope, FDiv(sx, n)))]

RECURSIVE IsPowerOfTwo(_)
IsPowerOfTwo(n) == n = 1 \/ (n % 2 = 0 /\ IsPowerOfTwo(n \div 2))

\* the finite values a binary float holds exactly (the magnitudes of the
\* model are far below 2^53)
Representable(a) == IsFinite(a) /\ IsPowerOfTwo(a.den)

\* what lstsq does with a NaN column, which only an all-zero x produces
Lapacks(ps) ==
    IF \A i \in 1..Len(ps) : ps[i][1].num = 0 THEN {"raises", "returns"} ELSE {"returns"}

\* np.mean(ym) may differ from the y it averages: 3 or more points of one
\* y that no binary float holds exactly (0.1 three times: the mean is
\* 0.10000000000000002).  With 2 points y + y and its half are exact.
Inexact(ps) ==
    /\ Len(ps) >= 3
    /\ \A i \in 1..Len(ps) : ps[i][2] = ps[1][2]
    /\ ~Representable(ps[1][2])

\* what rounding makes of lines 186-190 when the mean is inexact:
\* np.mean(ym) is `mean` units in the last place away from y, and the
\* prediction at x is pred[x] units away from y (equal x, equal
\* prediction), on either side; each within MaxUlps.  Otherwise rounding
\* does not decide the guard and the exact values stand.
Roundings(ps) ==
    LET xs == {ps[i][1] : i \in 1..Len(ps)}
    IN  IF Inexact(ps)
        THEN [mean : 0..MaxUlps, pred : [xs -> 0..MaxUlps]]
        ELSE {[mean |-> 0, pred |-> [x \in xs |-> 0]]}

\* r2 = 1 - ss_res / ss_tot if ss_tot != 0 else 0.0
\* The guard is evaluated on the rounded ss_tot.  With an exact ss_tot
\* other than 0 the rounded one is not 0 either.  With an exact ss_tot of
\* 0 (all y identical) the rounded one is 0 unless the mean is inexact;
\* then it is n * mean^2 squared units in the last place, ss_res is the
\* sum of the pred[x]^2, and r2 is 1 - ss_res / ss_tot of the two.
RSquared(ps, slope, intercept, rounding) ==
    LET ys == [i \in 1..Len(ps) |-> ps[i][2]]
        ybar == FDiv(FSum(ys), Fin(Len(ps), 1))
        res == FSum([i \in 1..Len(ps) |->
                        Sq(FSub(ps[i][2], FAdd(FMul(slope, ps[i][1]), intercept)))])
        tot == FSum([i \in 1..Len(ps) |-> Sq(FSub(ps[i][2], ybar))])
        ulp_res == FSum([i \in 1..Len(ps) |-> Sq(Fin(rounding.pred[ps[i][1]], 1))])
        ulp_tot == FMul(Fin(Len(ps), 1), Sq(Fin(rounding.mean, 1)))
    IN  IF tot.num # 0 THEN FSub(Fin(1, 1), FDiv(res, tot))
        ELSE IF ~Inexact(ps) \/ rounding.mean = 0 THEN Fin(0, 1)
        ELSE IF ~IsFinite(res) THEN NaN
        ELSE FSub(Fin(1, 1), FDiv(ulp_res, ulp_tot))

\* the whole try block: an exception inside it is swallowed (except
\* Exception: pass) before the trace and the annotation are added
fit_trend(grp, lapack, rounding) ==
    LET ps == ValidPairs(grp)
    IN  IF Len(ps) >= 2
        THEN LET fit == polyfit(ps, lapack)
             IN  IF fit.err # "" THEN NoTrend
                 ELSE [err |-> "", present |-> TRUE, slope |-> fit.slope,
                       intercept |-> fit.intercept,
                       r2 |-> RSquared(ps, fit.slope, fit.intercept, rounding)]
        ELSE NoTrend

(***************************************************************************)
(* main.py: flags and files.                                               *)
(***************************************************************************)
Flags ==
    {"skip_download", "skip_clean", "skip_plot",
     "force_download", "force_clean", "force_plot"}

IN_FILES ==
    {"buses_trains_passenger_transport.csv", "greenhouse_gas_emissions.csv",
     "road_transport_air_emissions.csv"}

INTEGRATED == "integrated_eurostat_transport_climate.csv"

\* download_data.DATASETS: the file names in the order of the loop
DATASETS ==
    <<"buses_trains_passenger_transport.csv", "greenhouse_gas_emissions.csv",
      "road_transport_air_emissions.csv">>

\* main.py is not running
MainIdle ==
    /\ args = [f \in Flags |-> FALSE]
    /\ fs = {}
    /\ at_root = TRUE
    /\ cwd_fs = {}
    /\ encoding = "utf-8"
    /\ errors = "strict"
    /\ cmd = {}
    /\ pc = "idle"
    /\ started = <<>>
    /\ fetched = {}
    /\ exit_status = <<>>
    /\ output = <<>>

(***************************************************************************)
(* The driver.  plan is the sequence of steps still to run; a step that    *)
(* raises ends the script (plan becomes empty).                            *)
(***************************************************************************)
Step == IF plan = <<>> THEN "stop" ELSE Head(plan)

After(out) == IF Raised(out) THEN <<>> ELSE Tail(plan)

\* clean_data.main, lines 228-230: the three normalizers, in this order
CleanBusesTrains ==
    /\ Step = "clean_buses_trains"
    /\ LET out == clean_buses_trains(raw["buses_trains"])
       IN  /\ cleaned' = [cleaned EXCEPT !["buses_trains"] = out]
           /\ plan' = After(out)
    /\ UNCHANGED <<raw, recleaned, integrated, summary, trend>>
    /\ UNCHANGED mainVars

CleanGreenhouseGas ==
    /\ Step = "clean_greenhouse_gas"
    /\ LET out == clean_greenhouse_gas(raw["greenhouse_gas"])
       IN  /\ cleaned' = [cleaned EXCEPT !["greenhouse_gas"] = out]
           /\ plan' = After(out)
    /\ UNCHANGED <<raw, recleaned, integrated, summary, trend>>
    /\ UNCHANGED mainVars

CleanRoadEmissions ==
    /\ Step = "clean_road_emissions"
    /\ LET out == clean_road_emissions(raw["road_emissions"])
       IN  /\ cleaned' = [cleaned EXCEPT !["road_emissions"] = out]
           /\ plan' = After(out)
    /\ UNCHANGED <<raw, recleaned, integrated, summary, trend>>
    /\ UNCHANGED mainVars

\* the normalizer of each cleaned table applied to its own output
Renormalize ==
    /\ Step = "renormalize"
    /\ recleaned' = [k \in Kinds |->
                        IF Returned(cleaned[k]) THEN Clean(k, cleaned[k]) ELSE Pending]
    /\ plan' = Tail(plan)
    /\ UNCHANGED <<raw, cleaned, integrated, summary, trend>>
    /\ UNCHANGED mainVars

\* clean_data.main, line 234
Integrate ==
    /\ Step = "integrate"
    /\ \E join \in Joins :
          LET out == integrate_datasets(cleaned, join)
          IN  /\ integrated' = out
              /\ plan' = After(out)
    /\ UNCHANGED <<raw, cleaned, recleaned, summary, trend>>
    /\ UNCHANGED mainVars


\* plot_scatter.main, lines 39-57: integrated holds the CSV as read
Aggregate ==
    /\ Step = "aggregate"
    /\ \E kahan \in Kahans(integrated) :
          LET out == aggregate(integrated, kahan)
          IN  /\ summary' = out
              /\ plan' = After(out)
    /\ UNCHANGED <<raw, cleaned, recleaned, integrated, trend>>
    /\ UNCHANGED mainVars

\* plot_scatter.main, lines 176-217
FitTrend ==
    /\ Step = "trend"
    /\ \E lapack \in Lapacks(ValidPairs(summary)),
          rounding \in Roundings(ValidPairs(summary)) :
          trend' = fit_trend(summary, lapack, rounding)
    /\ plan' = Tail(plan)
    /\ UNCHANGED <<raw, cleaned, recleaned, integrated, summary>>
    /\ UNCHANGED mainVars

(***************************************************************************)
(* Inputs of one normalizer (SpecClean): a raw table of at most MaxRawRows *)
(* rows over a family of column sets.  A row has at most one malformed     *)
(* field and fails at most one discriminator.                              *)
(***************************************************************************)
Txt2019 == <<"2", "0", "1", "9">>
\* 2019 after a tab and before a line feed: the number 2019
TxtTab2019 == <<"\t", "2", "0", "1", "9", "\n">>
\* a year followed by a blank
Txt2020 == <<"2", "0", "2", "0", " ">>
TxtFrac == <<"2", "0", "1", "9", ".", "5">>
TxtInf == <<"I", "n", "f">>
\* Inf after a blank: neither a number nor, as a whole, an infinity
TxtBlankInf == <<" ", "I", "n", "f">>
Txt40 == <<"4", "0", ".", "0">>
TxtX == <<"x">>
\* -2019.5 written with an exponent, and a negative value
TxtNegExp == <<"-", "2", ".", "0", "1", "9", "5", "e", "3">>
TxtNeg == <<"-", "0", ".", "5">>

BaseColumns == {"geo", "TIME_PERIOD", "OBS_VALUE", "OBS_FLAG"}

Discriminators(kind) ==
    CASE kind = "buses_trains" -> {"vehicle"}
      [] kind = "greenhouse_gas" -> {"unit", "src_crf"}
      [] kind = "road_emissions" -> {"indic_env", "airpol", "unit"}

\* the value the normalizer of kind keeps in discriminator column c
Target(kind, c) ==
    CASE c = "vehicle" -> "TRN_BUS_TOT_AVD"
      [] c = "src_crf" -> "TOTXMEMO"
      [] c = "indic_env" -> "AEMIS_RES"
      [] c = "airpol" -> "CO2"
      [] c = "unit" -> IF kind = "greenhouse_gas" THEN "T_HAB" ELSE "KG_HAB"

RawColumns(kind) == BaseColumns \cup Discriminators(kind)

RawRowData ==
    {<<Txt2019, Txt40>>, <<TxtTab2019, TxtBlankInf>>, <<TxtBlankInf, Txt40>>,
     <<TxtFrac, Txt40>>, <<TxtInf, Txt40>>, <<TxtNegExp, TxtNeg>>}

RawRow(kind, geo, period, value, bad) ==
    [c \in RawColumns(kind) |->
        CASE c = "geo" -> geo
          [] c = "TIME_PERIOD" -> period
          [] c = "OBS_VALUE" -> value
          [] c = "OBS_FLAG" -> "p"
          [] OTHER -> IF c = bad THEN "OTHER" ELSE Target(kind, c)]

Restrict(r, cols) == [c \in cols |-> r[c]]

NormalizerRows(kind) ==
    {RawRow(kind, "DE", d[1], d[2], bad) :
        d \in RawRowData, bad \in Discriminators(kind) \cup {"none"}}

ColumnFamily(kind) ==
    {RawColumns(kind) \ S : S \in SUBSET Discriminators(kind)}
        \cup {RawColumns(kind) \ {c} : c \in BaseColumns}

TablesOver(kind, cols) ==
    LET rows == {Restrict(r, cols) : r \in NormalizerRows(kind)}
    IN  {Frame(cols, s) : s \in UNION {[1..n -> rows] : n \in 0..MaxRawRows}}

NormalizerTables(kind) ==
    {EmptyFrame} \cup UNION {TablesOver(kind, cols) : cols \in ColumnFamily(kind)}

NoneCleaned == [k \in Kinds |-> Pending]

InitClean ==
    /\ \E kind \in Kinds : \E t \in NormalizerTables(kind) :
          /\ raw = [k \in Kinds |-> IF k = kind THEN t ELSE EmptyFrame]
          /\ plan = <<"clean_" \o kind, "renormalize">>
    /\ cleaned = NoneCleaned
    /\ recleaned = NoneCleaned
    /\ integrated = Pending
    /\ summary = Pending
    /\ trend = NotFitted
    /\ MainIdle

NextClean ==
    \/ CleanBusesTrains
    \/ CleanGreenhouseGas
    \/ CleanRoadEmissions
    \/ Renormalize

SpecClean == InitClean /\ [][NextClean]_vars

(***************************************************************************)
(* Inputs of the cleaning script (Spec): three raw tables of at most       *)
(* MaxTotalRows rows together.  Each table has every column of its source, *)
(* or is pd.DataFrame() (no columns); its rows pass the source filter,     *)
(* carry one of three (country, year) keys and a value that parses, or the *)
(* first key and a value that does not.  The rows of a table are drawn in  *)
(* one order, in which the first key comes back after the other two.       *)
(***************************************************************************)
ValueText(kind) ==
    CASE kind = "buses_trains" -> Txt40
      [] kind = "greenhouse_gas" -> <<"8", ".", "2">>
      [] kind = "road_emissions" -> <<"1", "8", "0", "0", ".", "0">>

\* the OBS_VALUE of a second row of the first key
Txt7 == <<"7">>

\* an OBS_VALUE that does not parse
BadValueText(kind) == IF kind = "greenhouse_gas" THEN TxtBlankInf ELSE TxtX

PipelineRows(kind) ==
    <<RawRow(kind, "DE", Txt2019, ValueText(kind), "none"),
      RawRow(kind, "DE", TxtTab2019, BadValueText(kind), "none"),
      RawRow(kind, "DE", Txt2020, ValueText(kind), "none"),
      RawRow(kind, "FR", Txt2019, ValueText(kind), "none"),
      RawRow(kind, "DE", Txt2019, Txt7, "none")>>

NonDecreasing ==
    [n \in 0..MaxTotalRows |->
        {s \in [1..n -> 1..Len(PipelineRows("buses_trains"))] : \A i \in 1..(n - 1) : s[i] <= s[i + 1]}]

PipelineTable(kind, s, header) ==
    IF s = <<>> /\ ~header THEN EmptyFrame
    ELSE Frame(RawColumns(kind), [i \in 1..Len(s) |-> PipelineRows(kind)[s[i]]])

Pipeline == <<"clean_buses_trains", "clean_greenhouse_gas", "clean_road_emissions", "integrate">>

Init ==
    /\ \E n1 \in 0..MaxTotalRows : \E n2 \in 0..(MaxTotalRows - n1) :
       \E n3 \in 0..(MaxTotalRows - n1 - n2) :
       \E s1 \in NonDecreasing[n1], s2 \in NonDecreasing[n2], s3 \in NonDecreasing[n3] :
       \E h1 \in {n1 # 0, TRUE}, h2 \in {n2 # 0, TRUE}, h3 \in {n3 # 0, TRUE} :
          raw = [k \in Kinds |->
                    CASE k = "buses_trains" -> PipelineTable(k, s1, h1)
                      [] k = "greenhouse_gas" -> PipelineTable(k, s2, h2)
                      [] k = "road_emissions" -> PipelineTable(k, s3, h3)]
    /\ plan = Pipeline
    /\ cleaned = NoneCleaned
    /\ recleaned = NoneCleaned
    /\ integrated = Pending
    /\ summary = Pending
    /\ trend = NotFitted
    /\ MainIdle

Next ==
    \/ CleanBusesTrains
    \/ CleanGreenhouseGas
    \/ CleanRoadEmissions
    \/ Integrate

Spec == Init /\ [][Next]_vars

(***************************************************************************)
(* Inputs of the plot script (SpecAggregate): an integrated CSV of at most *)
(* MaxIntegratedRows rows as integrate_datasets writes it (integer years,  *)
(* indicators that are numbers or inf), drawn in one order of its rows.    *)
(* A CSV of at most one row may also lack one of the columns.              *)
(***************************************************************************)
Txt2015 == <<"2", "0", "1", "5">>
Txt2018 == <<"2", "0", "1", "8">>
Txt0 == <<"0">>
Txt1500 == <<"1", "5", "0", "0">>
Txt3000 == <<"3", "0", "0", "0", ".", "0">>
\* 100 g is 0.1 kg, which no binary float holds exactly
Txt100 == <<"1", "0", "0">>
Txt82 == <<"8", ".", "2">>

\* (share_buses_trains, road_co2_per_capita_g) of a row
IndicatorPairs ==
    <<<<Txt0, Txt1500>>, <<Txt40, Txt3000>>, <<TxtInf, Txt1500>>,
      <<Txt40, TxtInf>>, <<Txt40, Txt100>>, <<Txt0, Txt100>>>>

YearTexts == <<Txt2015, Txt2018>>

IntegratedColumns ==
    {"country", "year", "share_buses_trains", "ghg_per_capita", "road_co2_per_capita_g"}

\* the rows of the model: a country, a year and a pair of indicators
RowCount == Len(Countries) * Len(YearTexts) * Len(IndicatorPairs)

IntegratedRow(j) ==
    LET c == ((j - 1) \div (Len(YearTexts) * Len(IndicatorPairs))) + 1
        y == (((j - 1) \div Len(IndicatorPairs)) % Len(YearTexts)) + 1
        p == ((j - 1) % Len(IndicatorPairs)) + 1
    IN  [country |-> Countries[c], year |-> YearTexts[y],
         share_buses_trains |-> IndicatorPairs[p][1],
         ghg_per_capita |-> Txt82,
         road_co2_per_capita_g |-> IndicatorPairs[p][2]]

RECURSIVE Sorted(_, _)
\* the non-decreasing sequences of n numbers in 1..m
Sorted(n, m) ==
    IF n = 0 THEN {<<>>}
    ELSE {x \in {Append(s, j) : s \in Sorted(n - 1, m), j \in 1..m} :
             n = 1 \/ x[n - 1] <= x[n]}

InitAggregate ==
    /\ \E n \in 0..MaxIntegratedRows :
       \E s \in Sorted(n, RowCount) :
       LET t == Frame(IntegratedColumns, [i \in 1..n |-> IntegratedRow(s[i])]) IN
       \E drop \in {"none"} \cup (IF Len(t.rows) <= 1 THEN IntegratedColumns ELSE {}) :
          integrated = Project(t, t.columns \ {drop})
    /\ plan = <<"aggregate", "trend">>
    /\ raw = [k \in Kinds |-> EmptyFrame]
    /\ cleaned = NoneCleaned
    /\ recleaned = NoneCleaned
    /\ summary = Pending
    /\ trend = NotFitted
    /\ MainIdle

NextAggregate ==
    \/ Aggregate
    \/ FitTrend

SpecAggregate == InitAggregate /\ [][NextAggregate]_vars

(***************************************************************************)
(* Claims about one normalizer (SpecClean).                                *)
(***************************************************************************)
RoadRaw == raw["road_emissions"]
RoadOut == cleaned["road_emissions"]

\* output row o carries the fields of raw row r: the columns passed through
\* unrenamed are equal and country is r's geo
ImageOf(o, r) ==
    /\ \A c \in (DOMAIN o) \cap (DOMAIN r) : o[c] = r[c]
    /\ ("country" \in DOMAIN o /\ "geo" \in DOMAIN r) => o["country"] = r["geo"]

\* C4 as stated: every row clean_road_emissions returns comes from a raw row
\* that has all three columns indic_env, airpol and unit and satisfies
\* indic_env == "AEMIS_RES", airpol == "CO2" and unit == "KG_HAB".
C4Original ==
    Returned(RoadOut) =>
        \A i \in 1..Len(RoadOut.rows) : \E j \in 1..Len(RoadRaw.rows) :
            LET r == RoadRaw.rows[j]
            IN  /\ {"indic_env", "airpol", "unit"} \subseteq DOMAIN r
                /\ r["indic_env"] = "AEMIS_RES"
                /\ r["airpol"] = "CO2"
                /\ r["unit"] = "KG_HAB"
                /\ ImageOf(RoadOut.rows[i], r)

\* C4 amended: every row clean_road_emissions returns comes from a raw row
\* with indic_env == "AEMIS_RES" and airpol == "CO2" and, when the raw table
\* has a unit column, unit == "KG_HAB"; without a unit column the unit
\* predicate is skipped.
C4UnitOnlyIfPresent ==
    Returned(RoadOut) =>
        \A i \in 1..Len(RoadOut.rows) : \E j \in 1..Len(RoadRaw.rows) :
            LET r == RoadRaw.rows[j]
            IN  /\ {"indic_env", "airpol"} \subseteq DOMAIN r
                /\ r["indic_env"] = "AEMIS_RES"
                /\ r["airpol"] = "CO2"
                /\ "unit" \in DOMAIN r => r["unit"] = "KG_HAB"
                /\ ImageOf(RoadOut.rows[i], r)

\* the road normalizer kept a row and dropped one that fails airpol
C4Witness ==
    /\ Returned(RoadOut)
    /\ Len(RoadOut.rows) = 1
    /\ Len(RoadRaw.rows) = 2
    /\ "unit" \in RoadRaw.columns
    /\ \E j \in 1..2 : RoadRaw.rows[j]["airpol"] = "OTHER"

\* C5: when the raw table has neither indic_env nor airpol,
\* clean_road_emissions returns a table of zero rows and does not raise.
C5EmptyWithoutDiscriminators ==
    (RoadOut # Pending /\ "indic_env" \notin RoadRaw.columns
        /\ "airpol" \notin RoadRaw.columns)
    => (Returned(RoadOut) /\ RoadOut.rows = <<>>)

\* a raw road table with rows and without the two columns has been normalized
C5Witness ==
    /\ RoadOut # Pending
    /\ RoadRaw.columns = {"geo", "TIME_PERIOD", "OBS_VALUE", "OBS_FLAG", "unit"}
    /\ Len(RoadRaw.rows) = 2
    /\ Returned(RoadOut)
    /\ RoadOut.rows = <<>>

\* the source filter of a normalizer on one raw row
PassesFilter(kind, r) ==
    /\ kind = "road_emissions" => {"indic_env", "airpol"} \subseteq DOMAIN r
    /\ \A c \in Discriminators(kind) \cap DOMAIN r : r[c] = Target(kind, c)

\* the raw rows that pass the filter and whose TIME_PERIOD parses
YearSurvivors(kind) ==
    SelectSeq(raw[kind].rows,
              LAMBDA r : PassesFilter(kind, r) /\ ~IsNull(to_numeric(r["TIME_PERIOD"])))

\* C6 as stated: in every normalizer a row that passes the source filter is
\* in the output iff its TIME_PERIOD parses as a number; a malformed row
\* never aborts the table; every emitted year equals the parsed value.
C6YearParsedOrDropped ==
    \A k \in Kinds :
        (cleaned[k] # Pending /\ "TIME_PERIOD" \in raw[k].columns) =>
            /\ Returned(cleaned[k])
            /\ Len(cleaned[k].rows) = Len(YearSurvivors(k))
            /\ \A i \in 1..Len(cleaned[k].rows) :
                  Fin(cleaned[k].rows[i]["year"], 1)
                      = to_numeric(YearSurvivors(k)[i]["TIME_PERIOD"])

RowSet(df) == {df.rows[i] : i \in 1..Len(df.rows)}

\* C9 as stated: re-normalizing a normalizer's output with the same
\* normalizer yields the same set of rows as the first normalization.
C9Original ==
    \A k \in Kinds :
        (Returned(cleaned[k]) /\ recleaned[k] # Pending) =>
            /\ Returned(recleaned[k])
            /\ \/ cleaned[k].rows = <<>> /\ recleaned[k].rows = <<>>
               \/ /\ recleaned[k].columns = cleaned[k].columns
                  /\ RowSet(recleaned[k]) = RowSet(cleaned[k])

\* the columns a normalizer passes through without renaming
Passthrough == {"OBS_FLAG", "vehicle", "unit", "indic_env", "airpol"}

\* C9 amended: re-normalizing a normalizer's output does not raise and
\* keeps every row, in order (the filter drops none), but only the columns
\* passed through unrenamed: country, year and the indicator are lost.
C9KeepsRowsLosesRenamed ==
    \A k \in Kinds :
        (Returned(cleaned[k]) /\ recleaned[k] # Pending) =>
            /\ Returned(recleaned[k])
            /\ recleaned[k].columns = cleaned[k].columns \cap Passthrough
            /\ Len(recleaned[k].rows) = Len(cleaned[k].rows)
            /\ \A i \in 1..Len(cleaned[k].rows) :
                  recleaned[k].rows[i] = Restrict(cleaned[k].rows[i], recleaned[k].columns)

\* a normalized table of two rows with country, year and indicator has
\* been normalized again
C9Witness ==
    \E k \in Kinds :
        /\ Returned(cleaned[k])
        /\ Len(cleaned[k].rows) = 2
        /\ {"country", "year", Indicator(k)} \subseteq cleaned[k].columns
        /\ Returned(recleaned[k])
        /\ Len(recleaned[k].rows) = 2

(***************************************************************************)
(* Claims about the cleaning script (Spec).                                *)
(***************************************************************************)
Keys(df) == {<<df.rows[i]["country"], df.rows[i]["year"]>> : i \in 1..Len(df.rows)}

\* the rows of a normalized table whose indicator, when the table has the
\* column, is not NaN
NonNullRows(kind) ==
    SelectSeq(cleaned[kind].rows,
              LAMBDA r : Indicator(kind) \in DOMAIN r => ~IsNull(r[Indicator(kind)]))

\* the invariant of a NormalizedRecord on the indicator: no row of df has
\* a NaN in one of the columns cols
NoNullIndicator(df, cols) ==
    \A i \in 1..Len(df.rows) : \A c \in cols \cap df.columns : ~IsNull(df.rows[i][c])

\* the keys that all three normalized tables carry
KeysOfAllThree ==
    Keys(cleaned["buses_trains"]) \cap Keys(cleaned["greenhouse_gas"])
        \cap Keys(cleaned["road_emissions"])

\* C1: every integrated row has a row of the same (country, year) key in
\* each of the three tables passed to integrate_datasets; and when the three
\* tables are normalized tables, which hold no NaN indicator, every key that
\* all three carry is in the integrated output.
C1JoinCompleteness ==
    Returned(integrated) =>
        /\ Keys(integrated) \subseteq KeysOfAllThree
        /\ (\A k \in Kinds : NoNullIndicator(cleaned[k], {Indicator(k)})) =>
              KeysOfAllThree \subseteq Keys(integrated)

\* three tables without a NaN indicator: the join kept the key that all
\* three carry and left out two keys that one table alone carries
C1Witness ==
    /\ Returned(integrated)
    /\ \A k \in Kinds : NoNullIndicator(cleaned[k], {Indicator(k)})
    /\ Keys(integrated) = {<<"DE", 2019>>}
    /\ KeysOfAllThree = {<<"DE", 2019>>}
    /\ <<"FR", 2019>> \in Keys(cleaned["buses_trains"])
    /\ <<"DE", 2020>> \in Keys(cleaned["greenhouse_gas"])

\* C2 as stated: no row a normalizer returns and no row integrate_datasets
\* returns has a NaN indicator; a row whose OBS_VALUE does not parse is
\* dropped by the normalizer.
C2Original ==
    /\ \A k \in Kinds : Returned(cleaned[k]) => NoNullIndicator(cleaned[k], {Indicator(k)})
    /\ Returned(integrated) => NoNullIndicator(integrated, Required)

\* C3 as stated: on empty source tables (a table without columns included)
\* no stage raises and each stage returns an empty table; whenever one of
\* the inputs of integrate_datasets is empty, its output is empty and it
\* does not raise.
C3EmptyInputSafe ==
    /\ \A k \in Kinds :
          (raw[k].rows = <<>> /\ cleaned[k] # Pending) =>
              (Returned(cleaned[k]) /\ cleaned[k].rows = <<>>)
    /\ (integrated # Pending /\ \E k \in Kinds : cleaned[k].rows = <<>>) =>
          (Returned(integrated) /\ integrated.rows = <<>>)

KeyCount(rows, key) ==
    Cardinality({i \in 1..Len(rows) : <<rows[i]["country"], rows[i]["year"]>> = key})

AllKeys ==
    Keys(cleaned["buses_trains"]) \cup Keys(cleaned["greenhouse_gas"])
        \cup Keys(cleaned["road_emissions"])

\* C7: for every key, the number of integrated rows with that key is the
\* product of the numbers of rows with that key and a non-null indicator in
\* the three normalized tables.
C7FanOutProduct ==
    Returned(integrated) =>
        \A key \in AllKeys :
            KeyCount(integrated.rows, key)
                = KeyCount(NonNullRows("buses_trains"), key)
                    * KeyCount(NonNullRows("greenhouse_gas"), key)
                    * KeyCount(NonNullRows("road_emissions"), key)

\* two rows of one key in two of the tables and one in the third: four
\* integrated rows
C7Witness ==
    /\ Returned(integrated)
    /\ KeyCount(integrated.rows, <<"DE", 2019>>) = 4
    /\ KeyCount(cleaned["road_emissions"].rows, <<"DE", 2019>>) = 1

(***************************************************************************)
(* Claims about the plot script (SpecAggregate).                           *)
(***************************************************************************)
CsvCountries == {integrated.rows[i]["country"] : i \in 1..Len(integrated.rows)}

\* the number each text of the CSV stands for, written out
CsvNumber(text) ==
    CASE text = Txt0 -> Fin(0, 1)
      [] text = Txt40 -> Fin(40, 1)
      [] text = Txt100 -> Fin(100, 1)
      [] text = Txt1500 -> Fin(1500, 1)
      [] text = Txt3000 -> Fin(3000, 1)
      [] text = Txt82 -> Fin(41, 5)
      [] text = Txt2015 -> Fin(2015, 1)
      [] text = Txt2018 -> Fin(2018, 1)
      [] text = TxtInf -> Inf

\* the numbers of column c in the CSV rows of one country
CsvValues(country, c) ==
    LET g == SelectSeq(integrated.rows, LAMBDA r : r["country"] = country)
    IN  [j \in 1..Len(g) |-> CsvNumber(g[j][c])]

\* m is the arithmetic mean of the numbers vs: their sum divided by their
\* count when all are finite; when one of them is inf the mean is inf, which
\* some builds of pandas report as NaN if the inf is not the last value
IsMeanOf(m, vs) ==
    IF \A j \in 1..Len(vs) : IsFinite(vs[j])
    THEN IsFinite(m) /\ FMul(m, Fin(Len(vs), 1)) = FSum(vs)
    ELSE m = Inf \/ (IsNull(m) /\ \E j \in 1..(Len(vs) - 1) : vs[j] = Inf)

\* C8: the summary has exactly one row per country of the integrated
\* table; the row carries the mean of each indicator over the country's
\* rows (not a finite number when one of the values is infinite), the road
\* mean divided by 1000 as kilograms, the smallest and the largest year and
\* the number of distinct years; a country with a single year has
\* year_min = year_max and count 1.
C8CountrySummary ==
    Returned(summary) =>
        /\ Len(summary.rows) = Cardinality(CsvCountries)
        /\ {summary.rows[i]["country"] : i \in 1..Len(summary.rows)} = CsvCountries
        /\ \A i \in 1..Len(summary.rows) :
              LET s == summary.rows[i]
                  years == CsvValues(s["country"], "year")
                  yearSet == {years[j] : j \in 1..Len(years)}
              IN  /\ IsMeanOf(s["share_buses_trains"],
                              CsvValues(s["country"], "share_buses_trains"))
                  /\ IsMeanOf(s["ghg_per_capita"], CsvValues(s["country"], "ghg_per_capita"))
                  /\ IsMeanOf(s["road_co2_per_capita_g"],
                              CsvValues(s["country"], "road_co2_per_capita_g"))
                  /\ IF IsFinite(s["road_co2_per_capita_g"])
                     THEN FMul(s["road_co2_per_capita_kg"], Fin(1000, 1))
                              = s["road_co2_per_capita_g"]
                     ELSE s["road_co2_per_capita_kg"] = s["road_co2_per_capita_g"]
                  /\ s["year_min"] \in yearSet
                  /\ s["year_max"] \in yearSet
                  /\ \A y \in yearSet : ~FLess(y, s["year_min"]) /\ ~FLess(s["year_max"], y)
                  /\ s["years_count"] = Cardinality(yearSet)
                  /\ Cardinality(yearSet) = 1 =>
                        (s["year_min"] = s["year_max"] /\ s["years_count"] = 1)

\* a country with rows in two years, 1500 g and 3000 g: 2.25 kg on average;
\* and a second country with a single year
C8Witness ==
    /\ Returned(summary)
    /\ Len(integrated.rows) = 3
    /\ \E i \in 1..Len(summary.rows) :
          /\ summary.rows[i]["years_count"] = 2
          /\ summary.rows[i]["year_min"] = Fin(2015, 1)
          /\ summary.rows[i]["year_max"] = Fin(2018, 1)
          /\ summary.rows[i]["road_co2_per_capita_kg"] = Fin(9, 4)
    /\ \E i \in 1..Len(summary.rows) :
          /\ summary.rows[i]["years_count"] = 1
          /\ summary.rows[i]["year_min"] = summary.rows[i]["year_max"]

\* the summaries whose x and y are both finite
FinitePairCount ==
    Cardinality({i \in 1..Len(summary.rows) :
                    /\ IsFinite(summary.rows[i]["share_buses_trains"])
                    /\ IsFinite(summary.rows[i]["road_co2_per_capita_kg"])})

\* C10 as stated: the trend block raises nothing; with fewer than 2 pairs
\* of finite values it produces no trend line and no annotation, with 2 or
\* more it produces a trend.
C10TrendIffTwoFinitePairs ==
    trend # NotFitted =>
        /\ trend.err = ""
        /\ trend.present <=> FinitePairCount >= 2

\* the y values of the summaries whose x and y are both finite
FiniteYs ==
    {summary.rows[i]["road_co2_per_capita_kg"] :
        i \in {j \in 1..Len(summary.rows) :
                  /\ IsFinite(summary.rows[j]["share_buses_trains"])
                  /\ IsFinite(summary.rows[j]["road_co2_per_capita_kg"])}}

\* C11 as stated: whenever at least 2 pairs of finite values exist and all
\* their y values are identical, the trend block reports an R2 of exactly
\* 0 (never NaN, never an error, never nothing), whatever the x values.
C11DegenerateRSquaredZero ==
    (trend # NotFitted /\ FinitePairCount >= 2 /\ Cardinality(FiniteYs) = 1) =>
        /\ trend.err = ""
        /\ trend.present
        /\ trend.r2 = Fin(0, 1)

(***************************************************************************)
(* main.py (SpecMain): one run of the orchestration, for every choice of   *)
(* the six flags and of the files that exist when it starts.  A script it  *)
(* starts is a subprocess: its return code and, for a download, the files  *)
(* it manages to create are chosen by the environment.                     *)
(***************************************************************************)
\* the non-zero return codes of the model: two exit statuses of a script
\* and the returncode subprocess gives a script killed by signal 9
FailureCodes == {1, 2, -9}

\* subprocess.run(cmd, check=False): a failure goes unnoticed
NeverRaises(rc) == FALSE

\* subprocess.run(cmd, check=True) raises CalledProcessError
Raises(rc) == rc # 0

\* sys.exit(code) on a POSIX system: the status the parent of main.py
\* reads is the low byte of the code
ExitStatus(code) == code % 256

\* main.py tests ROOT/data (ROOT from __file__); the scripts it starts
\* use data/input and data/output relative to the working directory
ChildFiles == IF at_root THEN fs ELSE cwd_fs

\* a script leaves the files new in its data directories
ChildWrites(new) ==
    /\ cwd_fs' = new
    /\ fs' = IF at_root THEN new ELSE fs

\* download_data.main, lines 76-88: of the first `reached` datasets, the
\* ones download_dataset is called for; a file that exists is skipped
ToFetch(files, reached) == {DATASETS[i] : i \in 1..reached} \ files

\* if args.force_download or (missing and not args.skip_download)
ShouldDownload ==
    args["force_download"] \/ (IN_FILES \ fs # {} /\ ~args["skip_download"])

\* if args.force_clean or (not INTEGRATED.exists() and not args.skip_clean)
ShouldClean == args["force_clean"] \/ (INTEGRATED \notin fs /\ ~args["skip_clean"])

\* if not args.skip_plot or args.force_plot
ShouldPlot == ~args["skip_plot"] \/ args["force_plot"]

SuccessLine == "All steps completed successfully."

\* the encodings of stdout in the model: one that has the em dash of
\* lines 56 and 62 (cp1252 has it too) and one that does not (nor does
\* ascii)
Encodings == {"utf-8", "latin-1"}

\* the error handlers of stdout in the model: "strict" (the default, and
\* PYTHONIOENCODING without a handler), "surrogateescape" (the default in
\* the C and POSIX locales) and "replace" (set by PYTHONIOENCODING)
Handlers == {"strict", "surrogateescape", "replace"}

\* the characters of a text that an encoding may lack: "wide" is a
\* character outside latin-1 (the em dash), "surrogate" a lone surrogate,
\* which stands for a byte of a file name that is not UTF-8
Characters == {"wide", "surrogate"}

\* print(text) raises UnicodeEncodeError when stdout cannot encode the
\* text: utf-8 has every character but the lone surrogates, latin-1 lacks
\* the wide ones too; "replace" writes a ? for what the encoding lacks and
\* "surrogateescape" writes a lone surrogate back as its byte
CanPrint(chars) ==
    /\ "wide" \in chars => (encoding = "utf-8" \/ errors = "replace")
    /\ "surrogate" \in chars => errors # "strict"

\* run_script(script) inside the try of main.  Line 35 prints the command
\* line: when stdout cannot encode it, print raises UnicodeEncodeError
\* after its first argument was written; the except of line 70 does not
\* catch it, the script is not started and Python exits with 1.  Otherwise
\* the script is started, leaves the files `files`, has called
\* download_dataset for `got` and returns rc; CalledProcessError ends main
\* with sys.exit(e.returncode)
RunScript(script, rc, next, said, files, got) ==
    IF CanPrint(cmd)
    THEN /\ started' = Append(started, [script |-> script, returncode |-> rc])
         /\ ChildWrites(files)
         /\ fetched' = got
         /\ IF Raises(rc)
            THEN /\ pc' = "exited"
                 /\ exit_status' = <<ExitStatus(rc)>>
                 /\ output' = output \o said
                                 \o <<"==> Running: " \o script, "ERROR: step failed">>
            ELSE /\ pc' = next
                 /\ exit_status' = exit_status
                 /\ output' = output \o said \o <<"==> Running: " \o script>>
    ELSE /\ pc' = "exited"
         /\ exit_status' = <<1>>
         /\ output' = output \o said \o <<"==> Running:">>
         /\ UNCHANGED <<started, fs, cwd_fs, fetched>>

\* a step that is not run: main prints that it skips it.  The lines of
\* the first two steps hold an em dash (written - here); a stdout that
\* cannot encode it makes print raise UnicodeEncodeError, which the except
\* of line 70 does not catch: nothing is printed and Python exits with 1
SkipStep(next, said, chars) ==
    /\ UNCHANGED <<started, fs, cwd_fs, fetched>>
    /\ IF CanPrint(chars)
       THEN /\ pc' = next
            /\ output' = Append(output, said)
            /\ UNCHANGED exit_status
       ELSE /\ pc' = "exited"
            /\ exit_status' = <<1>>
            /\ UNCHANGED output

\* main.py lines 51-56 with download_data.main: the loop takes the
\* datasets in order and calls download_dataset for the files that do not
\* exist; an exception of download_dataset is caught, whether or not the
\* file was created.  The script returns 0 after the whole loop, or fails
\* (an exception outside the try, or inside its handler, or a signal) after
\* `reached` datasets.
Download ==
    /\ pc = "download"
    /\ IF ShouldDownload
       THEN \E rc \in {0} \cup FailureCodes, reached \in 0..Len(DATASETS) :
            \E created \in SUBSET ToFetch(ChildFiles, reached) :
               /\ rc = 0 => reached = Len(DATASETS)
               /\ RunScript("download_data.py", rc, "clean",
                            IF IN_FILES \ fs # {} THEN <<"Missing input files">>
                            ELSE <<"Forcing download of datasets">>,
                            ChildFiles \cup created, ToFetch(ChildFiles, reached))
       ELSE SkipStep("clean", "Input datasets present - skipping download.", {"wide"})
    /\ UNCHANGED <<args, at_root, encoding, errors, cmd, dataVars>>

\* main.py lines 59-62 with clean_data.main: read_csv raises when an input
\* file is missing (the script ends with 1, unless a signal ends it first)
\* and nothing is written.  With its inputs the script writes the
\* integrated CSV at line 245 when it gets there: a run that succeeds has
\* written it, a run that fails has not (it failed before) or has (a signal
\* or a failing print after line 245)
CleanIntegrate ==
    /\ pc = "clean"
    /\ IF ShouldClean
       THEN \E rc \in {0} \cup FailureCodes, written \in BOOLEAN :
               /\ ~(IN_FILES \subseteq ChildFiles) => rc \in FailureCodes \ {2}
               /\ ~(IN_FILES \subseteq ChildFiles) => ~written
               /\ rc = 0 => written
               /\ RunScript("clean_data.py", rc, "plot", <<>>,
                            IF written THEN ChildFiles \cup {INTEGRATED} ELSE ChildFiles,
                            fetched)
       ELSE SkipStep("plot", "Integrated CSV present - skipping clean/integrate.",
                     {"wide"})
    /\ UNCHANGED <<args, at_root, encoding, errors, cmd, dataVars>>

\* main.py lines 65-68 with plot_scatter.main: sys.exit(1) when the
\* integrated CSV does not exist
Plot ==
    /\ pc = "plot"
    /\ IF ShouldPlot
       THEN \E rc \in {0} \cup FailureCodes :
               /\ INTEGRATED \notin ChildFiles => rc \in FailureCodes \ {2}
               /\ RunScript("plot_scatter.py", rc, "finish", <<>>, ChildFiles, fetched)
       ELSE SkipStep("finish", "Skipping plot step as requested.", {})
    /\ UNCHANGED <<args, at_root, encoding, errors, cmd, dataVars>>

\* main.py line 74
Finish ==
    /\ pc = "finish"
    /\ output' = Append(output, SuccessLine)
    /\ exit_status' = <<0>>
    /\ pc' = "done"
    /\ UNCHANGED <<args, fs, at_root, encoding, errors, cmd, cwd_fs, started, fetched,
                   dataVars>>

\* the tables are not part of a run of main.py
DataIdle ==
    /\ plan = <<>>
    /\ raw = [k \in Kinds |-> EmptyFrame]
    /\ cleaned = NoneCleaned
    /\ recleaned = NoneCleaned
    /\ integrated = Pending
    /\ summary = Pending
    /\ trend = NotFitted

InitMain ==
    /\ args \in [Flags -> BOOLEAN]
    /\ fs \in SUBSET (IN_FILES \cup {INTEGRATED})
    /\ at_root \in BOOLEAN
    /\ encoding \in Encodings
    /\ errors \in Handlers
    /\ cmd \in SUBSET Characters
    /\ cwd_fs \in (IF at_root THEN {fs} ELSE SUBSET (IN_FILES \cup {INTEGRATED}))
    /\ pc = "download"
    /\ started = <<>>
    /\ fetched = {}
    /\ exit_status = <<>>
    /\ output = <<>>
    /\ DataIdle

NextMain ==
    \/ Download
    \/ CleanIntegrate
    \/ Plot
    \/ Finish

SpecMain == InitMain /\ [][NextMain]_vars

(***************************************************************************)
(* Claims about main.py (SpecMain).                                        *)
(***************************************************************************)
StepOrder == <<"download_data.py", "clean_data.py", "plot_scatter.py">>

Position(script) == CHOOSE i \in 1..3 : StepOrder[i] = script

\* C12 as stated: the scripts that run do so in the order download,
\* clean/integrate, plot (cleaning before the plot in particular); a script
\* that returns a non-zero code is the last one started, main exits with
\* that code, and the success line is printed only when no started script
\* failed.
C12Original ==
    /\ \A i, j \in 1..Len(started) :
          i < j => Position(started[i].script) < Position(started[j].script)
    /\ \A i \in 1..Len(started) :
          started[i].returncode # 0 =>
              /\ i = Len(started)
              /\ pc = "exited"
              /\ exit_status = <<started[i].returncode>>
    /\ (\E k \in 1..Len(output) : output[k] = SuccessLine) =>
          \A i \in 1..Len(started) : started[i].returncode = 0

\* C12 amended: the scripts that run do so in the order download,
\* clean/integrate, plot; a script that returns a non-zero code is the last
\* one started and main exits with a non-zero status, which is that code
\* when the script exited with it (1 to 255) and 256 - N when signal N
\* killed the script (the code is then -N); the success line is printed
\* only when no started script failed.
C12OrderedAndFailFast ==
    /\ \A i, j \in 1..Len(started) :
          i < j => Position(started[i].script) < Position(started[j].script)
    /\ \A i \in 1..Len(started) :
          LET code == started[i].returncode
          IN  code # 0 =>
                 /\ i = Len(started)
                 /\ pc = "exited"
                 /\ exit_status = <<IF code > 0 THEN code ELSE 256 + code>>
                 /\ exit_status # <<0>>
    /\ (\E k \in 1..Len(output) : output[k] = SuccessLine) =>
          \A i \in 1..Len(started) : started[i].returncode = 0

\* the download succeeded, a signal killed clean_data.py and main exited
\* with 247 although the plot was not skipped
C12Witness ==
    /\ Len(started) = 2
    /\ started[1] = [script |-> "download_data.py", returncode |-> 0]
    /\ started[2] = [script |-> "clean_data.py", returncode |-> -9]
    /\ ~args["skip_plot"]
    /\ pc = "exited"
    /\ exit_status = <<247>>

\* C13 as stated: with --force-download, once download_data.py has run
\* and the three input files are in data/input, every dataset has been
\* downloaded, the files that existed before the run included.
C13ForceDownloadFetchesAll ==
    (/\ args["force_download"]
     /\ IN_FILES \subseteq fs
     /\ Len(started) >= 1
     /\ started[1] = [script |-> "download_data.py", returncode |-> 0]) =>
        fetched = IN_FILES

====
